---------------------------- MODULE Spec2Model ----------------------------
(***************************************************************************)
(* teaty: a terminal typing speed test (src/src/app.rs).                   *)
(*                                                                         *)
(* The model follows App: its five fields, the run loop (draw, read one    *)
(* terminal event, dispatch it, update_wpm) and the helpers the loop       *)
(* calls.  A character is a one-character string; a Rust String is a       *)
(* sequence of characters, and String::len() is its UTF-8 byte length.     *)
(* Instants and durations are counted in half seconds, so that             *)
(* Duration::as_secs() really truncates.                                   *)
(***************************************************************************)
EXTENDS Integers, Sequences, FiniteSets, TLC

VARIABLES
    running,     \* App.running
    words,       \* App.words: the target words
    input,       \* App.input: the typed characters
    start_time,  \* App.start_time: None or the Instant of the first keystroke
    wpm_data,    \* App.wpm_data
    pc,          \* position of App::run
    event,       \* the value event::read() returned, while it is being matched
    arm,         \* the arm of the dispatch that the last event took
    now,         \* the monotonic clock, in half seconds
    frame        \* what the last terminal.draw put on the screen

vars == <<running, words, input, start_time, wpm_data, pc, event, arm, now, frame>>

\* The fields of App.
app == <<running, words, input, start_time, wpm_data>>

-----------------------------------------------------------------------------
(* Bounds of the model *)

\* generate_text returns one of the outcomes 0..MaxSample of SampleIndices
MaxSample == 2
\* no character key press is delivered once input holds MaxInput characters
MaxInput == 2
\* no event is delivered once wpm_data holds MaxHist entries
MaxHist == 2
\* the clock stops at MaxTime half seconds
MaxTime == 4
\* the longest input a rendering is computed for in SpecDraw
MaxDrawInput == 6
\* the longest input update_wpm is run on in SpecWpm
MaxWpmInput == 5
\* the length of the inputs of SpecDraw that are longer than any target text
\* and reach past every index draw computes
LongInput == 120

-----------------------------------------------------------------------------
(* Values *)

\* Option: None is the empty sequence, Some(x) the sequence of x alone
None == << >>
Some(x) == <<x>>
unwrap(o) == o[1]

\* the one two-byte character of the model: U+00E9, e with acute accent
EAcute == "U+00E9"

\* char::len_utf8
len_utf8(c) == IF c = EAcute THEN 2 ELSE 1

RECURSIVE str_len(_)
\* String::len / str::len: the length in bytes
str_len(s) == IF s = <<>> THEN 0 ELSE len_utf8(Head(s)) + str_len(Tail(s))

\* s.chars().nth(n): the n-th character, counted from 0, or None
chars_nth(s, n) == IF n >= 0 /\ n < Len(s) THEN Some(s[n + 1]) ELSE None

\* Vec::last().unwrap_or(&0)
last_or_zero(v) == IF Len(v) = 0 THEN 0 ELSE v[Len(v)]

\* Duration::as_secs of a duration in half seconds
as_secs(d) == d \div 2

\* the words of generate_text, in the order of the array
word_list ==
    << <<"h","e","l","l","o">>,
       <<"w","o","r","l","d">>,
       <<"r","u","s","t">>,
       <<"s","p","e","e","d">>,
       <<"t","e","s","t">>,
       <<"k","e","y","b","o","a","r","d">>,
       <<"f","a","s","t">>,
       <<"t","y","p","i","n","g">>,
       <<"g","a","m","e">>,
       <<"c","h","a","l","l","e","n","g","e">>,
       <<"p","e","r","f","o","r","m","a","n","c","e">>,
       <<"a","c","c","u","r","a","c","y">> >>

\* the amount passed to choose_multiple
SampleSize == 10

\* list.choose_multiple(rng, amount): every sequence of amount elements of
\* the list taken at pairwise distinct indices, in any order (all of the
\* list, in any order, when it has fewer than amount elements).  The set is
\* defined by its members and is not enumerated.
choose_multiple(list, amount) ==
    LET n     == Len(list)
        take  == IF amount <= n THEN amount ELSE n
        elems == { list[k] : k \in 1..n }
    IN  { w \in [1..take -> elems] :
            \A v \in elems :
                Cardinality({ i \in 1..take : w[i] = v })
                    <= Cardinality({ k \in 1..n : list[k] = v }) }

\* App::generate_text: every ordered choice of 10 distinct words of the 12
generate_text == choose_multiple(word_list, SampleSize)

\* Index sequences the random generator produced for choose_multiple: the
\* first three gave the words of three runs of App::new
\* (keyboard accuracy game hello ..., typing fast rust accuracy ...,
\* typing test accuracy keyboard ...); the others are further outcomes.
SampleIndices ==
    << <<6, 12, 9, 1, 11, 5, 2, 3, 8, 7>>,
       <<8, 7, 3, 12, 11, 10, 2, 6, 5, 1>>,
       <<8, 5, 12, 6, 2, 9, 1, 11, 3, 4>>,
       <<1, 6, 11, 4, 9, 2, 7, 12, 5, 10>>,
       <<11, 10, 9, 8, 7, 6, 5, 4, 3, 2>> >>

\* the words at the indices of outcome s
sampled_text(s) == [i \in 1..SampleSize |-> word_list[SampleIndices[s + 1][i]]]

\* the outcomes of generate_text that the model draws from: those of the
\* outcomes 0..MaxSample that generate_text can return
sampled_texts ==
    { w \in { sampled_text(s) : s \in 0..MaxSample } : w \in generate_text }

-----------------------------------------------------------------------------
(* Terminal events *)

NONE    == {}
CONTROL == {"CONTROL"}
SHIFT   == {"SHIFT"}

KeyChars == {"c", "C", "r", "R", EAcute}

Char(c) == [tag |-> "Char", c |-> c]
Esc     == [tag |-> "Esc", c |-> "-"]
Enter   == [tag |-> "Enter", c |-> "-"]

KeyCodes == { Char(c) : c \in KeyChars } \cup {Esc, Enter}

\* the characters the model's keyboard sends without a modifier
TypedChars == {"c", "r", EAcute}

\* key events: every press of a key code under every modifier, an upper-case
\* letter only under a modifier, and the release of every unmodified key
KeyEvents ==
    { e \in [type : {"Key"}, kind : {"Press", "Release"},
             modifiers : {NONE, CONTROL, SHIFT, CONTROL \cup SHIFT},
             code : KeyCodes] :
        /\ e.kind = "Release" => e.modifiers = NONE
        /\ (e.modifiers = NONE /\ e.code.tag = "Char") => e.code.c \in TypedChars }

OtherEvent(t) == [type |-> t, kind |-> "-", modifiers |-> NONE, code |-> Enter]

Events == KeyEvents \cup { OtherEvent(t) : t \in {"Mouse", "Resize", "FocusGained"} }

NoEvent == OtherEvent("-")

NoFrame == [text |-> <<>>, wpm |-> -1]


\* the characters the initial states of SpecDraw type
DrawChars == {"t", "k", "f"}

\* the strings of at most n characters of cs
Strings(cs, n) == UNION { [1..k -> cs] : k \in 0..n }

\* the strings of n times the same character of cs
Repeated(cs, n) == { [k \in 1..n |-> c] : c \in cs }

-----------------------------------------------------------------------------
(* App::draw: the display model *)

input_index_no_separator(i, word, j) == i * str_len(word) + j

\* the index into input that draw compares character j of word i with
\* (i and j count from 0; word.len() is the byte length of the word)
input_index(i, word, j) == i * (str_len(word) + 1) + j

\* the styled character that draw pushes for character j of word i
draw_char(i, word, j, inp) ==
    LET c          == word[j + 1]
        input_char == chars_nth(inp, input_index(i, word, j))
    IN  IF input_char # None
        THEN IF unwrap(input_char) = c
             THEN [ch |-> c, style |-> "green"]
             ELSE [ch |-> c, style |-> "red"]
        ELSE [ch |-> c, style |-> "plain"]

\* what the loop body of draw pushes for word i
draw_word(i, word, inp) ==
    (IF i > 0 THEN << [ch |-> " ", style |-> "plain"] >> ELSE << >>)
    \o [j \in 1..Len(word) |-> draw_char(i, word, j - 1, inp)]

RECURSIVE text_display_from(_, _, _)
text_display_from(i, ws, inp) ==
    IF i >= Len(ws) THEN << >>
    ELSE draw_word(i, ws[i + 1], inp) \o text_display_from(i + 1, ws, inp)

\* text_display when the loop over the words ends
text_display(ws, inp) == text_display_from(0, ws, inp)

\* the number of format!("WPM: {}", ...)
wpm_display(history) == last_or_zero(history)

\* App::draw: the two paragraphs it renders
draw == [text |-> text_display(words, input), wpm |-> wpm_display(wpm_data)]

-----------------------------------------------------------------------------
(* The operations on the fields of App *)

\* App::quit
quit ==
    /\ running' = FALSE
    /\ UNCHANGED <<words, input, start_time, wpm_data>>

reset_keeps_history ==
    /\ words' \in sampled_texts
    /\ input' = << >>
    /\ start_time' = None
    /\ UNCHANGED <<running, wpm_data>>

reset_extends_words ==
    /\ \E w \in sampled_texts : words' = words \o w
    /\ input' = << >>
    /\ start_time' = None
    /\ wpm_data' = << >>
    /\ UNCHANGED running

reset_keeps_timer ==
    /\ words' \in sampled_texts
    /\ input' = << >>
    /\ wpm_data' = << >>
    /\ UNCHANGED <<running, start_time>>

\* App::reset
reset ==
    /\ words' \in sampled_texts
    /\ input' = << >>
    /\ start_time' = None
    /\ wpm_data' = << >>
    /\ UNCHANGED running

push_char_restarts(c) ==
    /\ start_time' = Some(now)
    /\ input' = Append(input, c)
    /\ UNCHANGED <<running, words, wpm_data>>

push_char_checked(c) ==
    /\ start_time' = IF start_time = None THEN Some(now) ELSE start_time
    /\ input' = IF chars_nth(words[1], Len(input)) = Some(c)
                THEN Append(input, c) ELSE input
    /\ UNCHANGED <<running, words, wpm_data>>

push_char_clears_history(c) ==
    /\ start_time' = IF start_time = None THEN Some(now) ELSE start_time
    /\ input' = Append(input, c)
    /\ wpm_data' = << >>
    /\ UNCHANGED <<running, words>>

\* the arm (KeyModifiers::NONE, KeyCode::Char(c)) of on_key_event
push_char(c) ==
    /\ start_time' = IF start_time = None THEN Some(now) ELSE start_time
    /\ input' = Append(input, c)
    /\ UNCHANGED <<running, words, wpm_data>>

is_quit_key_any_modifier(key) ==
    key.code \in {Esc, Char("c"), Char("C")}

\* the patterns of the first arm of on_key_event
is_quit_key(key) ==
    \/ key.code = Esc
    \/ key.modifiers = CONTROL /\ key.code \in {Char("c"), Char("C")}

\* the pattern of the second arm
is_char_key(key) == key.modifiers = NONE /\ key.code.tag = "Char"

\* the pattern of the third arm
is_reset_key(key) == key.modifiers = CONTROL /\ key.code = Char("r")

\* App::on_key_event: the first arm that matches runs
on_key_event(key) ==
    IF is_quit_key(key) THEN quit /\ arm' = "quit"
    ELSE IF is_char_key(key) THEN push_char(key.code.c) /\ arm' = "char"
    ELSE IF is_reset_key(key) THEN reset /\ arm' = "reset"
    ELSE UNCHANGED app /\ arm' = "other"

is_key_press_any_kind(ev) == ev.type = "Key"

\* the guard of the first arm of handle_crossterm_events
is_key_press(ev) == ev.type = "Key" /\ ev.kind = "Press"

\* the WPM that update_wpm computes from a byte length and whole seconds:
\* ((len as f64 / 5.0) * (60.0 / elapsed as f64)) as u32.  The f64 product
\* is the exact quotient 12 * len / elapsed rounded to a double, and the
\* cast truncates; the pairs below are those with len <= 40 and
\* elapsed <= 60 whose product rounds to just under the exact integer.
F64RoundsBelow ==
    { <<7, 7>>, <<7, 14>>, <<7, 28>>, <<14, 7>>, <<14, 14>>, <<14, 28>>,
      <<14, 56>>, <<19, 57>>, <<28, 7>>, <<28, 14>>, <<28, 28>>, <<28, 56>>,
      <<33, 11>>, <<33, 22>>, <<33, 33>>, <<33, 44>>, <<38, 57>>, <<39, 13>>,
      <<39, 26>>, <<39, 52>> }

wpm_of(len, elapsed) ==
    ((len * 60) \div (5 * elapsed))
        - (IF <<len, elapsed>> \in F64RoundsBelow THEN 1 ELSE 0)

\* start.elapsed().as_secs()
elapsed_secs(start) == as_secs(now - unwrap(start))

update_wpm_unguarded ==
    /\ wpm_data' =
         IF start_time # None
         THEN Append(wpm_data,
                     IF elapsed_secs(start_time) > 0
                     THEN wpm_of(str_len(input), elapsed_secs(start_time))
                     ELSE 0)
         ELSE wpm_data
    /\ UNCHANGED <<running, words, input, start_time>>

update_wpm_dedup ==
    /\ wpm_data' =
         IF /\ start_time # None /\ elapsed_secs(start_time) > 0
            /\ \/ wpm_data = << >>
               \/ last_or_zero(wpm_data)
                     # wpm_of(str_len(input), elapsed_secs(start_time))
         THEN Append(wpm_data, wpm_of(str_len(input), elapsed_secs(start_time)))
         ELSE wpm_data
    /\ UNCHANGED <<running, words, input, start_time>>

\* App::update_wpm
update_wpm ==
    /\ wpm_data' =
         IF start_time # None /\ elapsed_secs(start_time) > 0
         THEN Append(wpm_data, wpm_of(str_len(input), elapsed_secs(start_time)))
         ELSE wpm_data
    /\ UNCHANGED <<running, words, input, start_time>>

-----------------------------------------------------------------------------
(* App::run, one step at a time *)

Init ==
    /\ running = FALSE
    /\ words \in sampled_texts
    /\ input = << >>
    /\ start_time = None
    /\ wpm_data = << >>
    /\ pc = "new"
    /\ event = NoEvent
    /\ arm = "none"
    /\ now = 0
    /\ frame = NoFrame

\* self.running = true
run_enter ==
    /\ pc = "new"
    /\ running' = TRUE
    /\ pc' = "while"
    /\ UNCHANGED <<words, input, start_time, wpm_data, event, arm, now, frame>>

run_while_unchecked ==
    /\ pc = "while"
    /\ pc' = "draw"
    /\ UNCHANGED <<app, event, arm, now, frame>>

\* while self.running { ... } Ok(())
run_while ==
    /\ pc = "while"
    /\ pc' = IF running THEN "draw" ELSE "done"
    /\ UNCHANGED <<app, event, arm, now, frame>>

terminal_draw_drains ==
    /\ pc = "draw"
    /\ frame' = draw
    /\ wpm_data' = << >>
    /\ pc' = "read"
    /\ UNCHANGED <<running, words, input, start_time, event, arm, now>>

\* terminal.draw(|frame| self.draw(frame))
terminal_draw ==
    /\ pc = "draw"
    /\ frame' = draw
    /\ pc' = "read"
    /\ UNCHANGED <<app, event, arm, now>>

\* terminal.draw(...)? returns Err
terminal_draw_err ==
    /\ pc = "draw"
    /\ pc' = "error"
    /\ UNCHANGED <<app, event, arm, now, frame>>

\* the events the bounds let the terminal deliver
deliverable(ev) ==
    /\ Len(wpm_data) < MaxHist
    /\ (is_key_press(ev) /\ ~is_quit_key(ev) /\ is_char_key(ev)) => Len(input) < MaxInput

\* event::read() returns Ok(ev)
event_read ==
    /\ pc = "read"
    /\ \E ev \in Events :
         /\ deliverable(ev)
         /\ event' = ev
    /\ pc' = "match"
    /\ UNCHANGED <<app, arm, now, frame>>

event_read_err_stops ==
    /\ pc = "read"
    /\ pc' = "error"
    /\ running' = FALSE
    /\ UNCHANGED <<words, input, start_time, wpm_data, event, arm, now, frame>>

\* event::read()? returns Err
event_read_err ==
    /\ pc = "read"
    /\ pc' = "error"
    /\ UNCHANGED <<app, event, arm, now, frame>>

handle_crossterm_events_then_loop ==
    /\ pc = "match"
    /\ IF is_key_press(event)
       THEN on_key_event(event)
       ELSE UNCHANGED app /\ arm' = "none"
    /\ event' = NoEvent
    /\ pc' = "while"
    /\ UNCHANGED <<now, frame>>

\* App::handle_crossterm_events, from the match on
handle_crossterm_events ==
    /\ pc = "match"
    /\ IF is_key_press(event)
       THEN on_key_event(event)
       ELSE UNCHANGED app /\ arm' = "none"
    /\ event' = NoEvent
    /\ pc' = "tick"
    /\ UNCHANGED <<now, frame>>

\* self.update_wpm()
run_update_wpm ==
    /\ pc = "tick"
    /\ update_wpm
    /\ pc' = "while"
    /\ UNCHANGED <<event, arm, now, frame>>

\* time passes while the loop runs
clock_advance ==
    /\ pc \in {"draw", "read", "match", "tick", "while"}
    /\ now < MaxTime
    /\ now' = now + 1
    /\ UNCHANGED <<app, pc, event, arm, frame>>

Next ==
    \/ run_enter
    \/ run_while
    \/ terminal_draw
    \/ terminal_draw_err
    \/ event_read
    \/ event_read_err
    \/ handle_crossterm_events
    \/ run_update_wpm
    \/ clock_advance

Spec == Init /\ [][Next]_vars

\* Rendering alone: every sample and every short input, drawn once.
InitDraw ==
    /\ running = TRUE
    /\ words \in sampled_texts
    /\ input \in Strings(DrawChars, MaxDrawInput) \cup Repeated(DrawChars, LongInput)
    /\ start_time = (IF input = << >> THEN None ELSE Some(0))
    /\ wpm_data = << >>
    /\ pc = "draw"
    /\ event = NoEvent
    /\ arm = (IF input = << >> THEN "none" ELSE "char")
    /\ now = 0
    /\ frame = NoFrame

NextDraw == terminal_draw

SpecDraw == InitDraw /\ [][NextDraw]_vars

\* update_wpm alone: every short input typed within the first second (no
\* update_wpm has appended yet), the last character just dispatched, at every
\* time of the clock; then the loop check and the next draw.
InitWpm ==
    /\ running = TRUE
    /\ words \in sampled_texts
    /\ input \in Strings(TypedChars, MaxWpmInput) \ { << >> }
    /\ start_time = Some(0)
    /\ wpm_data = << >>
    /\ pc = "tick"
    /\ event = NoEvent
    /\ arm = "char"
    /\ now \in 0..MaxTime
    /\ frame = [text |-> text_display(words, SubSeq(input, 1, Len(input) - 1)),
                wpm  |-> wpm_display(wpm_data)]

NextWpm ==
    \/ run_update_wpm
    \/ run_while
    \/ terminal_draw

SpecWpm == InitWpm /\ [][NextWpm]_vars

TypeOK ==
    /\ running \in BOOLEAN
    /\ Len(words) \in 0..Len(word_list)
    /\ Len(input) \in 0..(MaxInput + MaxDrawInput + MaxWpmInput + LongInput)
    /\ start_time = None \/ (Len(start_time) = 1 /\ unwrap(start_time) \in 0..MaxTime)
    /\ Len(wpm_data) \in 0..MaxHist
    /\ pc \in {"new", "while", "draw", "read", "match", "tick", "done", "error"}
    /\ arm \in {"none", "quit", "char", "reset", "other"}
    /\ now \in 0..MaxTime

-----------------------------------------------------------------------------
(* The events as the specification classes them *)

\* a key press: a key event of kind Press
KeyPress(ev) == ev.type = "Key" /\ ev.kind = "Press"

\* a character key press with no modifier
UnmodifiedCharPress(ev) ==
    KeyPress(ev) /\ ev.code.tag = "Char" /\ ev.modifiers = {}

\* a quit key: Escape, or Control+C / Control+c
QuitKeyPress(ev) ==
    /\ KeyPress(ev)
    /\ \/ ev.code.tag = "Esc"
       \/ ev.modifiers = {"CONTROL"} /\ ev.code.tag = "Char" /\ ev.code.c \in {"c", "C"}

\* Control+R: the chord as the terminal reports it, the key code Char('r')
\* under the CONTROL modifier alone
ControlRPress(ev) ==
    KeyPress(ev) /\ ev.modifiers = {"CONTROL"} /\ ev.code.tag = "Char" /\ ev.code.c = "r"

\* every other event
IgnoredEvent(ev) ==
    ~UnmodifiedCharPress(ev) /\ ~QuitKeyPress(ev) /\ ~ControlRPress(ev)

\* the step that dispatches the event that was read
Dispatch == pc = "match" /\ pc' = "tick"

\* the step that runs update_wpm
Tick == pc = "tick" /\ pc' = "while"

\* s is s2 or a proper prefix of it
IsPrefix(s, s2) == Len(s) <= Len(s2) /\ SubSeq(s2, 1, Len(s)) = s

-----------------------------------------------------------------------------
(* C1 *)

\* C1: start_time goes from absent to present only in the dispatch of an
\* unmodified character key press, which is the first of the session (the
\* input is still empty) and stores the instant of that dispatch; a
\* character key press with start_time absent always sets it; and, once
\* present, its value changes in no step (key press, tick, ignored event,
\* quit) but a reset, which makes it absent.
C1_StartTimeSetOncePerSession ==
    [][ /\ (start_time = None /\ start_time' # None) =>
              /\ Dispatch /\ UnmodifiedCharPress(event)
              /\ input = << >>
              /\ start_time' = Some(now)
        /\ (Dispatch /\ UnmodifiedCharPress(event) /\ start_time = None) =>
              start_time' # None
        /\ (start_time # None /\ start_time' # start_time) =>
              /\ Dispatch /\ arm' = "reset"
              /\ start_time' = None
      ]_vars

\* a second character was typed after the clock moved on, and start_time
\* still holds the instant of the first
C1_Witness ==
    /\ pc = "tick" /\ arm = "char"
    /\ Len(input) = 2
    /\ start_time # None /\ unwrap(start_time) < now

-----------------------------------------------------------------------------
(* C2 *)

\* C2: after a reset (Control+R) the input is empty, start_time is absent,
\* wpm_data is empty and words is a sample of 10 words of generate_text,
\* whatever the state before; this still holds after the update_wpm of the
\* same iteration, and the frame drawn next shows WPM 0.
C2_ResetRestores ==
    (arm = "reset" /\ pc \in {"tick", "while", "draw", "read"}) =>
        /\ input = << >>
        /\ start_time = None
        /\ wpm_data = << >>
        /\ Len(words) = 10
        /\ words \in generate_text
        /\ pc = "read" => frame.wpm = 0

\* the update_wpm after a reset has run; the frame still on the screen, drawn
\* before the reset, shows typed characters and a WPM above 0
C2_Witness ==
    /\ arm = "reset" /\ pc = "while"
    /\ wpm_data = << >>
    /\ frame.wpm > 0
    /\ \E p \in 1..Len(frame.text) : frame.text[p].style # "plain"

-----------------------------------------------------------------------------
(* C3 *)

\* the arms of the dispatch that call nothing: the event is not a key
\* press, or the key matches none of the patterns of on_key_event
IgnoredArms == {"none", "other"}

\* C3, as stated: an event that is not an unmodified character key press,
\* a quit key or Control+R (a mouse event, a resize, a key release,
\* Shift+character, ...) causes no state change: words, input, start_time,
\* wpm_data and running are the same after the event is processed, that
\* is after the dispatch and the update_wpm of its iteration, as before.
C3_OtherEventsNoStateChange ==
    [][ /\ (Dispatch /\ IgnoredEvent(event)) =>
              (UNCHANGED app /\ arm' \in IgnoredArms)
        /\ (Tick /\ arm \in IgnoredArms) => UNCHANGED app
      ]_vars

\* C3, amended: the dispatch of such an event changes no field; over the
\* whole iteration words, input, start_time and running are as before,
\* and wpm_data is as before or, when start_time is present and at least
\* one whole second has gone, longer by the one entry update_wpm appends.
C3_OtherEventsIgnored ==
    [][ /\ (Dispatch /\ IgnoredEvent(event)) =>
              (UNCHANGED app /\ arm' \in IgnoredArms)
        /\ (Tick /\ arm \in IgnoredArms) =>
              /\ UNCHANGED <<running, words, input, start_time>>
              /\ IF start_time # None /\ elapsed_secs(start_time) >= 1
                 THEN /\ Len(wpm_data') = Len(wpm_data) + 1
                      /\ SubSeq(wpm_data', 1, Len(wpm_data)) = wpm_data
                 ELSE wpm_data' = wpm_data
      ]_vars

\* an unmatched key combination was processed in a session that has input
\* and a timer: the frame drawn before it shows no history, and the
\* update_wpm of its iteration has appended the first entry
C3_Witness ==
    /\ pc = "while" /\ arm = "other"
    /\ input # << >> /\ start_time # None
    /\ frame.text # << >> /\ frame.wpm = 0
    /\ Len(wpm_data) = 1 /\ wpm_data[1] > 0

-----------------------------------------------------------------------------
(* C4 *)

\* C4: the dispatch of an unmodified character key press appends the
\* character and neither quits nor resets; the dispatch of Escape or
\* Control+C/Control+c sets running to false and changes nothing else; the
\* dispatch of Control+R resets and does not quit.  Each takes its own arm.
C4_KeyDispatch ==
    [][ Dispatch =>
          /\ UnmodifiedCharPress(event) =>
                /\ arm' = "char"
                /\ input' = Append(input, event.code.c)
                /\ running' = running /\ words' = words /\ wpm_data' = wpm_data
          /\ QuitKeyPress(event) =>
                /\ arm' = "quit"
                /\ running' = FALSE
                /\ UNCHANGED <<words, input, start_time, wpm_data>>
          /\ ControlRPress(event) =>
                /\ arm' = "reset"
                /\ input' = << >> /\ start_time' = None /\ wpm_data' = << >>
                /\ running' = running
      ]_vars

\* the character c, pressed with no modifier, was typed and did not quit
C4_Witness ==
    /\ pc = "tick" /\ arm = "char" /\ running
    /\ input # << >> /\ input[Len(input)] = "c"

-----------------------------------------------------------------------------
(* C5 *)

\* C5: the dispatch of a quit key leaves running false; from then on running
\* stays false, no frame is drawn, no event is read and the loop does not
\* fail: the only steps left are the update_wpm of the iteration and the
\* loop check, which sees the flag and ends the loop with Ok.
C5_QuitEndsLoop ==
    [][ /\ (Dispatch /\ QuitKeyPress(event)) => ~running'
        /\ (~running /\ pc # "new") =>
              /\ ~running'
              /\ frame' = frame
              /\ event' = event
              /\ pc' \in {"tick", "while", "done"}
              /\ (pc = "while" /\ pc' # pc) => pc' = "done"
              /\ pc = "done" => pc' = "done"
      ]_vars

\* the loop has ended after a quit key
C5_Witness == pc = "done" /\ arm = "quit" /\ ~running

-----------------------------------------------------------------------------
(* C6 *)

RECURSIVE JoinedFrom(_, _)
JoinedFrom(i, ws) ==
    IF i > Len(ws) THEN << >>
    ELSE (IF i > 1 THEN <<" ">> ELSE << >>) \o ws[i] \o JoinedFrom(i + 1, ws)

\* the target words joined by single spaces
Joined(ws) == JoinedFrom(1, ws)

\* the characters the frame shows
FrameChars == [p \in 1..Len(frame.text) |-> frame.text[p].ch]

\* the tag of target character c at position p (from 0) of the joined text
TagAt(c, inp, p) ==
    IF p < Len(inp)
    THEN (IF inp[p + 1] = c THEN "matched" ELSE "mismatched")
    ELSE "pending"

\* the tag a style stands for
TagOf(style) ==
    CASE style = "green" -> "matched"
      [] style = "red"   -> "mismatched"
      [] OTHER           -> "pending"

\* C6: the frame shows the target words joined by single spaces, and the
\* target character at position p of that text is tagged matched if
\* input[p] exists and equals it, mismatched if input[p] exists and differs,
\* pending if input has no character at position p.
C6_TagsByJoinedPosition ==
    pc = "read" =>
        LET t == Joined(words)
        IN  /\ Len(frame.text) = Len(t)
            /\ \A p \in 1..Len(t) :
                  /\ frame.text[p].ch = t[p]
                  /\ t[p] # " " => TagOf(frame.text[p].style) = TagAt(t[p], input, p - 1)

-----------------------------------------------------------------------------
(* C7 *)

\* floor((L / 5.0) * (60.0 / E)) for the small L and E of the model
FloorWpm(L, E) == (L * 60) \div (5 * E)

\* C7: when update_wpm appends, E >= 1 whole seconds after start_time, the
\* value appended is floor((L / 5.0) * (60.0 / E)) with L the number of
\* characters typed.
C7_WpmFromCharacterCount ==
    [][ (Tick /\ wpm_data' # wpm_data) =>
          /\ start_time # None
          /\ elapsed_secs(start_time) >= 1
          /\ wpm_data' = Append(wpm_data, FloorWpm(Len(input), elapsed_secs(start_time)))
      ]_vars

-----------------------------------------------------------------------------
(* C8 *)

\* C8: update_wpm changes no field of App when start_time is absent or when
\* less than one whole second has passed since start_time; every entry it
\* appends is computed with start_time present and a divisor of at least 1.
C8_NoTickBeforeOneSecond ==
    [][ Tick =>
          /\ (start_time = None \/ elapsed_secs(start_time) = 0) => UNCHANGED app
          /\ wpm_data' # wpm_data =>
                (start_time # None /\ elapsed_secs(start_time) >= 1)
      ]_vars

\* update_wpm has run with the timer started less than a second ago, and
\* the history is still empty
C8_Witness ==
    /\ pc = "while" /\ arm = "char"
    /\ start_time # None /\ now - unwrap(start_time) < 2
    /\ wpm_data = << >>

-----------------------------------------------------------------------------
(* C9 *)

\* C9: the dispatch of an unmodified character key press with character c
\* makes input the old input followed by c, whether or not c is the target
\* character; every step that is not a reset leaves the old input a prefix
\* of the new one.
C9_InputAppendOnly ==
    [][ /\ (Dispatch /\ UnmodifiedCharPress(event)) =>
              input' = Append(input, event.code.c)
        /\ ~(Dispatch /\ arm' = "reset") => IsPrefix(input, input')
      ]_vars

\* two characters were typed and neither is the target character
C9_Witness ==
    /\ pc = "tick" /\ arm = "char"
    /\ Len(input) = 2
    /\ input[1] # words[1][1] /\ input[2] # words[1][2]

-----------------------------------------------------------------------------
(* C10 *)

\* C10: in every state words has exactly 10 entries, each a word of the
\* corpus, no two the same.
C10_TenDistinctCorpusWords ==
    /\ Len(words) = 10
    /\ \A i \in 1..Len(words) : \E k \in 1..Len(word_list) : words[i] = word_list[k]
    /\ \A i, k \in 1..Len(words) : i # k => words[i] # words[k]

\* a reset has drawn a new sample while the frame still shows the old one
C10_Witness ==
    /\ arm = "reset" /\ pc = "tick"
    /\ frame # NoFrame
    /\ FrameChars # Joined(words)

-----------------------------------------------------------------------------
(* C11 *)

\* C11: words is never empty; the only step that changes words or makes
\* wpm_data shorter is the dispatch of a reset.
C11_WordsAndHistoryWithinSession ==
    [][ /\ words # << >> /\ words' # << >>
        /\ (words' # words \/ Len(wpm_data') < Len(wpm_data)) =>
              (Dispatch /\ arm' = "reset")
      ]_vars

\* a character was typed in a session that already has history, and the
\* history and the words drawn on the screen are still there
C11_Witness ==
    /\ pc = "tick" /\ arm = "char"
    /\ Len(input) = 2 /\ wpm_data # << >>
    /\ frame # NoFrame
    /\ FrameChars = Joined(words)

-----------------------------------------------------------------------------
(* C12 *)

\* C12: an iteration of the loop draws, then reads one event, then
\* dispatches it, then runs update_wpm, each once and in this order, and
\* only then comes back to the loop check; inside the loop the fields of
\* App change only in the dispatch and in update_wpm, never in the draw or
\* while the read is pending; the frame changes only in the draw.
C12_IterationOrder ==
    [][ /\ pc = "while" => pc' \in {"while", "draw", "done"}
        /\ pc = "draw"  => pc' \in {"draw", "read", "error"}
        /\ pc = "read"  => pc' \in {"read", "match", "error"}
        /\ pc = "match" => pc' \in {"match", "tick"}
        /\ pc = "tick"  => pc' \in {"tick", "while"}
        /\ (pc # "new" /\ app' # app) => (Dispatch \/ Tick)
        /\ frame' # frame => (pc = "draw" /\ pc' = "read")
        /\ event' # event => pc \in {"read", "match"}
      ]_vars

\* a later iteration is about to draw: a frame was drawn before, an event
\* changed the input and update_wpm changed the history since
C12_Witness ==
    /\ pc = "draw" /\ frame # NoFrame
    /\ input # << >> /\ wpm_data # << >>
    /\ frame.wpm # last_or_zero(wpm_data)

-----------------------------------------------------------------------------
(* C13 *)

\* C13: the loop fails only in the read of the next event; the failed read
\* dispatches no event and runs no update_wpm, leaves the fields of App and
\* the frame as they were, and ends run with the error: nothing is retried.
C13_OnlyReadFails ==
    [][ /\ (pc' = "error" /\ pc # "error") =>
              /\ pc = "read"
              /\ UNCHANGED <<app, event, arm, frame>>
        /\ pc = "error" => UNCHANGED vars
      ]_vars

\* C13, amended: the loop fails only in the draw of the frame or in the read
\* of the next event; the failed step dispatches no event and runs no
\* update_wpm, leaves the fields of App and the frame as they were, and ends
\* run with the error: nothing is retried.
C13_OnlyDrawOrReadFails ==
    [][ /\ (pc' = "error" /\ pc # "error") =>
              /\ pc \in {"draw", "read"}
              /\ UNCHANGED <<app, event, arm, frame>>
        /\ pc = "error" => UNCHANGED vars
      ]_vars

\* run has ended with an error in a session that was running, with typed
\* input and history
C13_Witness ==
    /\ pc = "error" /\ running
    /\ input # << >> /\ wpm_data # << >>

-----------------------------------------------------------------------------
(* C14 *)

\* the current WPM: the last element of wpm_data, or 0 if it is empty
CurrentWpm == IF wpm_data = << >> THEN 0 ELSE wpm_data[Len(wpm_data)]

\* C14: with 5 characters typed and 2 whole seconds gone since the first
\* keystroke, the current WPM after update_wpm is 30; as long as no
\* update_wpm has appended, the current WPM is 0 and so is the WPM of the
\* frame drawn from that state.
C14_FiveCharactersTwoSeconds ==
    /\ (/\ pc \in {"while", "draw", "read"}
        /\ Len(input) = 5
        /\ start_time # None /\ as_secs(now - unwrap(start_time)) = 2)
          => CurrentWpm = 30
    /\ wpm_data = << >> =>
          /\ CurrentWpm = 0
          /\ pc = "read" => frame.wpm = 0

\* the part of C14 the code keeps: 5 one-byte characters
C14_Ascii ==
    (/\ pc \in {"while", "draw", "read"}
     /\ Len(input) = 5 /\ str_len(input) = 5
     /\ start_time # None /\ as_secs(now - unwrap(start_time)) = 2)
       => (CurrentWpm = 30 /\ (pc = "read" => frame.wpm = 30))

-----------------------------------------------------------------------------
(* C15 *)

RECURSIVE WordOffset(_, _)
\* the number of characters the frame shows before word i (from 0): the
\* earlier words and one space after each
WordOffset(i, ws) == IF i = 0 THEN 0 ELSE WordOffset(i - 1, ws) + Len(ws[i]) + 1

\* the style of target character c compared with index n of the input
StyleAt(c, inp, n) ==
    IF n >= Len(inp) THEN "plain"
    ELSE IF inp[n + 1] = c THEN "green" ELSE "red"

\* C15: the frame shows character j of word i (both from 0) compared with
\* the input at index i * (length of word i + 1) + j: plain (pending) when
\* that index is at or past the end of the input, else green or red; and a
\* frame is drawn for every input, empty, short or longer than the text.
C15_ComparedIndex ==
    pc = "read" =>
        /\ frame # NoFrame
        /\ Len(frame.text) = WordOffset(Len(words), words) - 1
        /\ \A i \in 0..(Len(words) - 1) :
              \A j \in 0..(Len(words[i + 1]) - 1) :
                  LET cell == frame.text[WordOffset(i, words) + j + 1]
                      c    == words[i + 1][j + 1]
                  IN  /\ cell.ch = c
                      /\ cell.style = StyleAt(c, input, i * (Len(words[i + 1]) + 1) + j)

\* a frame drawn from an input that ends inside the second word's indices:
\* a character of the second word is compared, a later one is pending
C15_Witness ==
    /\ pc = "read" /\ Len(input) <= MaxDrawInput
    /\ \E p \in (Len(words[1]) + 2)..(Len(frame.text) - 1) :
          /\ frame.text[p].style # "plain"
          /\ frame.text[p + 1].style = "plain" /\ frame.text[p + 1].ch # " "

\* a frame drawn from an input longer than the whole text: nothing pending
C15_LongInputDrawn ==
    /\ pc = "read" /\ Len(input) > Len(frame.text)
    /\ \A p \in 1..Len(frame.text) :
          frame.text[p].ch # " " => frame.text[p].style # "plain"

-----------------------------------------------------------------------------
(* C16 *)

\* C16: every update_wpm that runs with start_time present and at least one
\* whole second gone appends exactly one entry, whatever the last entry is;
\* no other step makes wpm_data longer, so it grows by at most one entry
\* per event.
C16_AppendsEveryIteration ==
    [][ /\ (Tick /\ start_time # None /\ elapsed_secs(start_time) >= 1) =>
              /\ Len(wpm_data') = Len(wpm_data) + 1
              /\ SubSeq(wpm_data', 1, Len(wpm_data)) = wpm_data
        /\ Len(wpm_data') > Len(wpm_data) =>
              (Tick /\ Len(wpm_data') = Len(wpm_data) + 1)
      ]_vars

\* update_wpm has run after an event that was not a key press and has
\* appended the value that was already the last one
C16_Witness ==
    /\ pc = "while" /\ arm = "none"
    /\ Len(wpm_data) >= 2
    /\ wpm_data[Len(wpm_data)] = wpm_data[Len(wpm_data) - 1]

-----------------------------------------------------------------------------
(* C17 *)

\* C17: the draw step changes the frame and nothing else: words, input,
\* start_time, wpm_data and running are as before; and the frame it leaves
\* is the one a second draw of the state it leaves would produce, built
\* from words, input and wpm_data alone.
C17_DrawIsPure ==
    [][ (pc = "draw" /\ pc' = "read") =>
          /\ UNCHANGED app
          /\ frame' = [text |-> text_display(words', input'),
                       wpm  |-> wpm_display(wpm_data')]
      ]_vars

\* a frame has been drawn from a session with typed input and history,
\* which are still there
C17_Witness ==
    /\ pc = "read"
    /\ input # << >> /\ start_time # None /\ wpm_data # << >>
    /\ frame.wpm = wpm_data[Len(wpm_data)]
    /\ \E p \in 1..Len(frame.text) : frame.text[p].style # "plain"

-----------------------------------------------------------------------------
(* C18 *)

\* C18: in every state start_time is present exactly when input is not
\* empty, and wpm_data is not empty only when start_time is present; so
\* every entry of wpm_data belongs to a session with typed input.
C18_TimerInputHistory ==
    /\ start_time # None <=> input # << >>
    /\ wpm_data # << >> => start_time # None
    /\ wpm_data # << >> => input # << >>

\* update_wpm has appended in a session whose timer started after the clock
\* had moved on, with input typed
C18_Witness ==
    /\ pc = "while" /\ wpm_data # << >>
    /\ start_time # None /\ unwrap(start_time) > 0
    /\ input # << >>

=============================================================================
